---- MODULE Spec2Model ----
(***************************************************************************)
(* compryss/dataio.py, class DataIO: the streaming writer                  *)
(* (add_and_compress_data_stream) and the two-pass streaming reader        *)
(* (load_and_decompress_data_stream) of one DataIO instance working on a   *)
(* small set of target files.                                              *)
(*                                                                         *)
(* Text is a sequence of code points, a file a sequence of byte values.    *)
(* The zlib stream is the one zlib 1.2.13 writes and reads: the 2-byte     *)
(* header, one deflate block (lazy matching of level 6, static trees or    *)
(* stored) and the Adler-32 check on the writing side; the bit-packed      *)
(* inflate with stored, fixed and dynamic blocks on the reading side.      *)
(***************************************************************************)
EXTENDS Integers, Sequences, FiniteSets, TLC

\* ------------------------------------------------------------------ bounds

\* Pushes one behaviour makes on the instance.
MaxPush == 2
\* Direct calls of _get_meta_data_from_file one behaviour makes.
MaxMeta == 2
\* The caller's buffer sizes are 1..MaxBuf and DefaultBufferSize.
MaxBuf == 2

\* Default of the buffer_size parameter; Pass 1 always runs with it.
DefaultBufferSize == 1024

Targets == {"A", "B"}

\* The records a caller pushes: "" and "e-acute" (U+00E9, two bytes in UTF-8).
Records == {<<>>, <<233>>}

BufSizes == (1..MaxBuf) \cup {DefaultBufferSize}

\* ------------------------------------------------------------ text helpers

Min(a, b) == IF a < b THEN a ELSE b

RECURSIVE SumSeq(_)
SumSeq(s) == IF s = <<>> THEN 0 ELSE Head(s) + SumSeq(Tail(s))

\* s[:n] and s[n:] of Python, n >= 0.
Take(s, n) == SubSeq(s, 1, Min(n, Len(s)))
Drop(s, n) == SubSeq(s, Min(n, Len(s)) + 1, Len(s))

\* p occurs in s starting at (1-based) position i.
OccursAt(s, p, i) == /\ i >= 1
                     /\ i + Len(p) - 1 <= Len(s)
                     /\ SubSeq(s, i, i + Len(p) - 1) = p

\* Python's `p in s`.
Contains(s, p) == \E i \in 1..(Len(s) + 1) : OccursAt(s, p, i)

\* Python's s.find(p): the 0-based index of the first occurrence, or -1.
Find(s, p) == IF Contains(s, p)
              THEN (CHOOSE i \in 1..(Len(s) + 1) :
                       /\ OccursAt(s, p, i)
                       /\ \A j \in 1..(i - 1) : ~OccursAt(s, p, j)) - 1
              ELSE -1

\* Python's s[start:] for start >= -1 (a negative start counts from the end).
SliceFrom(s, start) == IF start >= 0 THEN Drop(s, start)
                       ELSE IF Len(s) = 0 THEN <<>>
                       ELSE SubSeq(s, Len(s), Len(s))

\* ------------------------------------------------------------------ UTF-8

\* str.encode("utf-8") of one code point below U+0800.
EncodeChar(cp) == IF cp < 128 THEN <<cp>>
                  ELSE <<192 + (cp \div 64), 128 + (cp % 64)>>

\* str.encode("utf-8"); the text is encoded in halves to keep the
\* evaluation shallow.
RECURSIVE EncodeRange(_, _, _)
EncodeRange(text, lo, hi) ==
    IF lo > hi THEN <<>>
    ELSE IF lo = hi THEN EncodeChar(text[lo])
    ELSE LET mid == (lo + hi) \div 2
         IN EncodeRange(text, lo, mid) \o EncodeRange(text, mid + 1, hi)

Encode(text) == EncodeRange(text, 1, Len(text))

IsContinuation(b) == b >= 128 /\ b <= 191

IsLead(b) == b >= 194 /\ b <= 223

\* The strict UTF-8 decoder fed one byte: lead is the pending lead byte of a
\* 2-byte sequence (0 when none), ok turns false at the first byte that
\* cannot follow.
DecodeByte(s, b) ==
    IF ~s.ok THEN s
    ELSE IF s.lead # 0
    THEN IF IsContinuation(b)
         THEN [ok |-> TRUE, lead |-> 0,
               text |-> Append(s.text, (s.lead - 192) * 64 + (b - 128))]
         ELSE [s EXCEPT !.ok = FALSE]
    ELSE IF b < 128 THEN [s EXCEPT !.text = Append(@, b)]
    ELSE IF IsLead(b) THEN [s EXCEPT !.lead = b]
    ELSE [s EXCEPT !.ok = FALSE]

\* The bytes lo..hi of bytes fed in order, in halves; the decoder's state
\* after the first half is settled before the second half is fed.
RECURSIVE DecodeRange(_, _, _, _)
RECURSIVE DecodeRest(_, _, _, _)
DecodeRange(s, bytes, lo, hi) ==
    IF lo > hi THEN s
    ELSE IF lo = hi THEN DecodeByte(s, bytes[lo])
    ELSE DecodeRest(DecodeRange(s, bytes, lo, (lo + hi) \div 2),
                    bytes, (lo + hi) \div 2 + 1, hi)

DecodeRest(a, bytes, lo, hi) == IF ~a.ok THEN a ELSE DecodeRange(a, bytes, lo, hi)

\* The end of the input: a pending lead byte is a truncated sequence.
DecodeEnd(s) == IF s.ok /\ s.lead = 0 THEN [ok |-> TRUE, text |-> s.text]
                ELSE [ok |-> FALSE, text |-> <<>>]

\* bytes.decode("utf-8"), strict: [ok, text]; a lone lead byte, a lone
\* continuation byte or a truncated sequence raises UnicodeDecodeError.
Decode(bytes) ==
    DecodeEnd(DecodeRange([ok |-> TRUE, lead |-> 0, text |-> <<>>], bytes, 1, Len(bytes)))

\* ------------------------------------------------------------- zlib stream

\* The zlib header of wbits = 15, default level: 0x78 0x9c.
Header == <<120, 156>>

\* deflate's parameters at the default level 6 (configuration_table[6]) and
\* its match limits.
MIN_MATCH == 3
MAX_MATCH == 258
GoodLength == 8
MaxLazy == 16
NiceLength == 128
MaxChain == 128
TooFar == 4096

\* base_length/extra_lbits and base_dist/extra_dbits of the length codes
\* 257..285 and the distance codes 0..29.
LengthBase == <<3, 4, 5, 6, 7, 8, 9, 10, 11, 13, 15, 17, 19, 23, 27, 31, 35, 43, 51, 59,
                67, 83, 99, 115, 131, 163, 195, 227, 258>>
LengthExtra == <<0, 0, 0, 0, 0, 0, 0, 0, 1, 1, 1, 1, 2, 2, 2, 2, 3, 3, 3, 3,
                 4, 4, 4, 4, 5, 5, 5, 5, 0>>
DistBase == <<1, 2, 3, 4, 5, 7, 9, 13, 17, 25, 33, 49, 65, 97, 129, 193, 257, 385, 513, 769,
              1025, 1537, 2049, 3073, 4097, 6145, 8193, 12289, 16385, 24577>>
DistExtra == <<0, 0, 0, 0, 1, 1, 2, 2, 3, 3, 4, 4, 5, 5, 6, 6, 7, 7, 8, 8,
               9, 9, 10, 10, 11, 11, 12, 12, 13, 13>>

\* The bits of a value, least significant first (send_bits), and of a Huffman
\* code, most significant first (the codes are stored bit-reversed).
ValueBits(v, n) == [k \in 1..n |-> (v \div (2 ^ (k - 1))) % 2]
HuffBits(code, n) == [k \in 1..n |-> (code \div (2 ^ (n - k))) % 2]

\* The value of bits[from..to] read least significant first, and read as a
\* Huffman code.
RECURSIVE BitsVal(_, _, _)
BitsVal(bits, from, to) ==
    IF from > to THEN 0 ELSE bits[from] + 2 * BitsVal(bits, from + 1, to)
RECURSIVE HuffVal(_, _)
HuffVal(bits, n) ==
    IF n = 0 THEN 0 ELSE 2 * HuffVal(bits, n - 1) + bits[n]

\* The static literal/length tree (static_ltree): code and length of a symbol.
StaticCode(sym) == IF sym <= 143 THEN 48 + sym
                   ELSE IF sym <= 255 THEN 400 + (sym - 144)
                   ELSE IF sym <= 279 THEN sym - 256
                   ELSE 192 + (sym - 280)
SymBits(sym) ==
    HuffBits(StaticCode(sym),
             IF sym <= 143 THEN 8 ELSE IF sym <= 255 THEN 9 ELSE IF sym <= 279 THEN 7 ELSE 8)

\* compress_block on one match, i the code (1-based index into the tables)
\* of its length and of its distance; a literal b is SymBits(b), the end of
\* the block SymBits(256).
LengthBits(len, i) == SymBits(256 + i) \o ValueBits(len - LengthBase[i], LengthExtra[i])
DistBits(dist, i) == HuffBits(i - 1, 5) \o ValueBits(dist - DistBase[i], DistExtra[i])
MatchBits(len, dist) ==
    LengthBits(len, CHOOSE i \in 1..29 : LengthBase[i] <= len /\ (i = 29 \/ LengthBase[i + 1] > len))
    \o DistBits(dist, CHOOSE i \in 1..30 : DistBase[i] <= dist /\ (i = 30 \/ DistBase[i + 1] > dist))

\* Bitwise exclusive or of two n-bit values.
RECURSIVE Xor(_, _, _)
Xor(a, b, n) == IF n = 0 THEN 0
                ELSE ((a + b) % 2) + 2 * Xor(a \div 2, b \div 2, n - 1)

\* UPDATE_HASH with hash_bits 15, hash_shift 5.
UpdateHash(h, c) == Xor((h * 32) % 32768, c, 15)
\* The hash of the three bytes at every position that has three, as a
\* sequence: the 0-based position p, whose byte is w[p + 1], at index p + 1.
HashAll(w) == <<>> \o [i \in 1..(IF Len(w) >= MIN_MATCH THEN Len(w) - 2 ELSE 0) |->
                          UpdateHash(UpdateHash(w[i], w[i + 1]), w[i + 2])]

\* The number of equal bytes at positions c and s, at most lim.
MatchLen(w, c, s, lim) ==
    CHOOSE l \in 0..lim : /\ \A k \in 0..(l - 1) : w[c + k + 1] = w[s + k + 1]
                          /\ (l = lim \/ w[c + l + 1] # w[s + l + 1])

\* longest_match walks the hash chain of position s, most recent candidate
\* first; x = [p, len, start, chain]: the next candidate, the best match so
\* far and the candidates it may still try.  Position 0 is NIL and ends the
\* chain.  A candidate replaces the best match only when it is longer;
\* a match of nice bytes ends the search.
ChainTry(x, nice, len) ==
    IF len > x.len
    THEN [p |-> IF len >= nice THEN 0 ELSE x.p - 1, len |-> len, start |-> x.p,
          chain |-> x.chain - 1]
    ELSE [x EXCEPT !.p = @ - 1, !.chain = @ - 1]
ChainStep(w, h, s, nice, x) ==
    IF h[x.p + 1] # h[s + 1] THEN [x EXCEPT !.p = @ - 1]
    ELSE ChainTry(x, nice, MatchLen(w, x.p, s, Min(MAX_MATCH, Len(w) - s)))
\* At most n candidates from x on.
RECURSIVE ChainWalk(_, _, _, _, _, _)
ChainWalk(w, h, s, nice, x, n) ==
    IF n = 0 \/ x.p < 1 \/ x.chain = 0 THEN x
    ELSE IF n = 1 THEN ChainStep(w, h, s, nice, x)
    ELSE ChainWalk(w, h, s, nice, ChainWalk(w, h, s, nice, x, n \div 2), n - (n \div 2))

\* A match of the minimum length that is too far back is dropped.
TrimMatch(m, s) ==
    IF m.len = MIN_MATCH /\ s - m.start > TooFar THEN [m EXCEPT !.len = MIN_MATCH - 1] ELSE m

\* deflate_slow's search at position s: [len, start, ..], the new
\* match_length and match_start, given the previous ones.
FindMatch(w, h, s, prev_length, prev_match) ==
    IF /\ Len(w) - s >= MIN_MATCH
       /\ prev_length < MaxLazy
       /\ \E p \in 1..(s - 1) : h[p + 1] = h[s + 1]
    THEN TrimMatch(ChainWalk(w, h, s, Min(NiceLength, Len(w) - s),
                             [p |-> s - 1, len |-> prev_length, start |-> prev_match,
                              chain |-> IF prev_length >= GoodLength THEN MaxChain \div 4
                                        ELSE MaxChain],
                             s), s)
    ELSE [len |-> MIN_MATCH - 1, start |-> prev_match]

\* One turn of deflate_slow's loop (lazy matching); x = [s, len, start,
\* avail, out]: strstart, the match found at s - 1, match_available and the
\* bits so far.  The match at s - 1 is emitted when the one at s is not
\* longer; else the byte at s - 1 goes out as a literal.
DeflateTurn(w, x, m) ==
    IF x.len >= MIN_MATCH /\ m.len <= x.len
    THEN [s |-> x.s + x.len - 1, len |-> MIN_MATCH - 1, start |-> m.start, avail |-> FALSE,
          out |-> x.out \o MatchBits(x.len, x.s - 1 - x.start)]
    ELSE [s |-> x.s + 1, len |-> m.len, start |-> m.start, avail |-> TRUE,
          out |-> IF x.avail THEN x.out \o SymBits(w[x.s]) ELSE x.out]
\* At most n turns from x on, until the input is used up.
RECURSIVE DeflateSlow(_, _, _, _)
DeflateSlow(w, h, x, n) ==
    IF n = 0 \/ x.s >= Len(w) THEN x
    ELSE IF n = 1 THEN DeflateTurn(w, x, FindMatch(w, h, x.s, x.len, x.start))
    ELSE DeflateSlow(w, h, DeflateSlow(w, h, x, n \div 2), n - (n \div 2))
\* After the loop the byte a match was still awaited for goes out as a
\* literal.
DeflateLast(w, x) == IF x.avail THEN x.out \o SymBits(w[x.s]) ELSE x.out
\* The bits of the literals and matches of w.
DeflateBits(w) ==
    DeflateLast(w, DeflateSlow(w, HashAll(w),
                               [s |-> 0, len |-> MIN_MATCH - 1, start |-> 0, avail |-> FALSE,
                                out |-> <<>>],
                               Len(w)))

\* bi_windup and the pending buffer: eight bits to a byte, the first bit the
\* least significant, the last byte padded with zero bits.
PackBits(bits) == [i \in 1..((Len(bits) + 7) \div 8) |->
                      BitsVal(bits, 8 * i - 7, Min(8 * i, Len(bits)))]

\* _tr_flush_block of the last block, given the bits of the static tree: a
\* stored block (_tr_stored_block: the block header, LEN and NLEN, the bytes
\* themselves) when that is not longer, else the static trees.  (zlib
\* takes dynamic trees when they are shorter than both; they are not for the
\* inputs of this model, which are short and hardly repeat a byte.)
FlushBlock(w, bits) ==
    IF Len(w) + 4 <= (Len(bits) + 3 + 7) \div 8
    THEN <<1, Len(w) % 256, Len(w) \div 256, 255 - (Len(w) % 256), 255 - (Len(w) \div 256)>> \o w
    ELSE PackBits(<<1, 1, 0>> \o bits)

\* deflate(Z_FINISH) on an input w shorter than MIN_LOOKAHEAD (262 bytes),
\* all of it still unmatched: one block.
DeflateBlock(w) ==
    FlushBlock(w, DeflateBits(w) \o SymBits(256))

\* adler32: s1 is one plus the sum of the bytes, s2 the sum of the values s1
\* takes, both modulo AdlerBase; from (s1, s2) over w: [s1, s2].
AdlerBase == 65521
\* The sum of (a - b * i) * w[i] over i in lo..hi.
RECURSIVE WeightedSum(_, _, _, _, _)
WeightedSum(w, lo, hi, a, b) ==
    IF lo > hi THEN 0
    ELSE IF lo = hi THEN (a - b * lo) * w[lo]
    ELSE WeightedSum(w, lo, (lo + hi) \div 2, a, b)
         + WeightedSum(w, (lo + hi) \div 2 + 1, hi, a, b)
Adler(w, s1, s2) ==
    [s1 |-> (s1 + WeightedSum(w, 1, Len(w), 1, 0)) % AdlerBase,
     s2 |-> (s2 + Len(w) * s1 + WeightedSum(w, 1, Len(w), Len(w) + 1, 1)) % AdlerBase]
\* The four check bytes, most significant first.
CheckBytes(a) == <<a.s2 \div 256, a.s2 % 256, a.s1 \div 256, a.s1 % 256>>
Adler32(w) == CheckBytes(Adler(w, 1, 0))

\* zlib.compressobj(): no header emitted yet, nothing buffered, not finished.
NewCompressor == [hdr |-> FALSE, pend |-> <<>>, fin |-> FALSE]

\* compressor.compress(bytes): the header on the first call, the input is
\* buffered.  On a finished compressor it raises zlib.error.
CompressOut(c, bytes) == IF c.hdr THEN <<>> ELSE Header
CompressNext(c, bytes) == [c EXCEPT !.hdr = TRUE, !.pend = @ \o bytes]

\* compressor.flush(): the deflate block of everything buffered and the
\* check bytes.
FlushOut(c) == (IF c.hdr THEN <<>> ELSE Header) \o DeflateBlock(c.pend) \o Adler32(c.pend)
FlushNext(c) == [hdr |-> TRUE, pend |-> <<>>, fin |-> TRUE]

\* inflate's modes: HEAD the two header bytes, DICTID the four bytes of a
\* preset dictionary's id, DICT waiting for that dictionary, TYPE the three
\* bits of a block header, STORED the lengths of a stored block, COPY its
\* bytes, TABLE the code counts of a dynamic block, LENLENS the lengths of
\* its code length code, CODELENS the lengths of its two codes, LEN a
\* literal/length code, LENEXT the length's extra bits, DIST a distance
\* code, DISTEXT its extra bits, CHECK the four check bytes, DONE the end of
\* the stream, BAD a failed one.

\* zlib.decompressobj(): hold are the bits taken from the input and not yet
\* used, win the output so far (the window), s1 and s2 its running check;
\* lencode and distcode are the code lengths of the block's two codes (empty:
\* the fixed codes), nlen, ndist, ncode and lens the counts and the lengths
\* read so far of a dynamic block's header.
NewDecompressor ==
    [st |-> "HEAD", hold |-> <<>>, last |-> FALSE, length |-> 0, offset |-> 0, extra |-> 0,
     win |-> <<>>, s1 |-> 1, s2 |-> 0,
     nlen |-> 0, ndist |-> 0, ncode |-> 0, lens |-> <<>>, lencode |-> <<>>, distcode |-> <<>>]

\* DROPBITS(n)
DropBits(d, n) == [d EXCEPT !.hold = SubSeq(@, n + 1, Len(@))]
Fail(d) == [d EXCEPT !.st = "BAD"]

\* Output of the bytes out: into the window and the running check.
Emit(d, out) == [d EXCEPT !.win = @ \o out,
                          !.s1 = Adler(out, d.s1, d.s2).s1,
                          !.s2 = Adler(out, d.s1, d.s2).s2]

\* case HEAD, the 16 bits are there: the header check, the method, the
\* window size, the preset-dictionary flag.
CaseHead(d) ==
    IF \/ (BitsVal(d.hold, 1, 8) * 256 + BitsVal(d.hold, 9, 16)) % 31 # 0
       \/ BitsVal(d.hold, 1, 4) # 8
       \/ BitsVal(d.hold, 5, 8) + 8 > 15
    THEN Fail(d)
    ELSE [d EXCEPT !.st = IF d.hold[14] = 1 THEN "DICTID" ELSE "TYPE", !.hold = <<>>]

\* case TYPE, the 3 bits are there: the last-block bit and the block type;
\* a block of type 1 brings the fixed codes.
CaseType(d) ==
    [DropBits(d, 3) EXCEPT !.last = (d.hold[1] = 1),
                           !.st = CASE BitsVal(d.hold, 2, 3) = 0 -> "STORED"
                                    [] BitsVal(d.hold, 2, 3) = 1 -> "LEN"
                                    [] BitsVal(d.hold, 2, 3) = 2 -> "TABLE"
                                    [] OTHER -> "BAD",
                           !.lencode = IF BitsVal(d.hold, 2, 3) = 1 THEN <<>> ELSE @,
                           !.distcode = IF BitsVal(d.hold, 2, 3) = 1 THEN <<>> ELSE @]

\* case STORED, byte-aligned and the 32 bits are there: LEN and its
\* complement.
CaseStored(d) ==
    IF BitsVal(d.hold, 1, 16) # 65535 - BitsVal(d.hold, 17, 32) THEN Fail(d)
    ELSE [d EXCEPT !.st = "COPY", !.length = BitsVal(d.hold, 1, 16), !.hold = <<>>]

\* inflate_table on the code lengths of a code (symbol i at index i + 1, 0 for
\* a symbol without a code): the number of codes of a length, the longest
\* length, and the codes left unused after the lengths 1..n (-1: more codes
\* than there are).
MaxBits == 15
CountLen(lens, n) == Cardinality({i \in 1..Len(lens) : lens[i] = n})
MaxLen(lens) == CHOOSE n \in 0..MaxBits : /\ \A i \in 1..Len(lens) : lens[i] <= n
                                         /\ (n = 0 \/ \E i \in 1..Len(lens) : lens[i] = n)
LeftStep(left, count) == IF left < 0 \/ 2 * left < count THEN -1 ELSE 2 * left - count
RECURSIVE LeftAfter(_, _)
LeftAfter(lens, n) == IF n = 0 THEN 1 ELSE LeftStep(LeftAfter(lens, n - 1), CountLen(lens, n))
\* It accepts no code at all, a complete code, and, except for the code
\* length code (codes), a single code of one bit.
TableOk(lens, codes) ==
    \/ MaxLen(lens) = 0
    \/ LeftAfter(lens, MaxBits) = 0
    \/ (LeftAfter(lens, MaxBits) > 0 /\ ~codes /\ MaxLen(lens) = 1)

\* The canonical codes: the first code of length n, and the k-th symbol (from
\* 0) among those of length n.
RECURSIVE FirstCode(_, _)
FirstCode(lens, n) == IF n = 1 THEN 0 ELSE 2 * (FirstCode(lens, n - 1) + CountLen(lens, n - 1))
NthOfLen(lens, n, k) ==
    (CHOOSE i \in 1..Len(lens) : /\ lens[i] = n
                                 /\ Cardinality({j \in 1..(i - 1) : lens[j] = n}) = k) - 1

\* The code at the head of hold, tried from n bits on: [sym, bits]; bits = 0
\* when hold does not hold a whole code yet, sym = -1 for the bits no code
\* starts with (a single code of one bit leaves one bit value unused; a
\* table of no code at all takes one bit).
NeedMore == [sym |-> 0, bits |-> 0]
RECURSIVE CodeAt(_, _, _)
CodeAt(lens, hold, n) ==
    IF n > Len(hold) /\ n <= MaxLen(lens) THEN NeedMore
    ELSE IF n > MaxLen(lens) THEN IF Len(hold) = 0 THEN NeedMore ELSE [sym |-> -1, bits |-> 1]
    ELSE IF HuffVal(hold, n) - FirstCode(lens, n) \in 0..(CountLen(lens, n) - 1)
    THEN [sym |-> NthOfLen(lens, n, HuffVal(hold, n) - FirstCode(lens, n)), bits |-> n]
    ELSE CodeAt(lens, hold, n + 1)

\* The fixed literal/length code (lenfix) at the head of hold: [sym, bits],
\* bits = 0 when hold does not hold a whole code yet.
FixedSym(hold) ==
    IF Len(hold) < 7 THEN NeedMore
    ELSE IF HuffVal(hold, 7) <= 23 THEN [sym |-> 256 + HuffVal(hold, 7), bits |-> 7]
    ELSE IF Len(hold) < 8 THEN NeedMore
    ELSE IF HuffVal(hold, 8) <= 191 THEN [sym |-> HuffVal(hold, 8) - 48, bits |-> 8]
    ELSE IF HuffVal(hold, 8) <= 199 THEN [sym |-> 280 + HuffVal(hold, 8) - 192, bits |-> 8]
    ELSE IF Len(hold) < 9 THEN NeedMore
    ELSE [sym |-> 144 + HuffVal(hold, 9) - 400, bits |-> 9]

\* case TABLE, the 14 bits are there: the numbers of length, distance and
\* code length codes.
CaseTable(d) ==
    [DropBits(d, 14) EXCEPT !.nlen = BitsVal(d.hold, 1, 5) + 257,
                            !.ndist = BitsVal(d.hold, 6, 10) + 1,
                            !.ncode = BitsVal(d.hold, 11, 14) + 4,
                            !.lens = <<>>,
                            !.st = IF BitsVal(d.hold, 1, 5) + 257 > 286
                                      \/ BitsVal(d.hold, 6, 10) + 1 > 30
                                   THEN "BAD" ELSE "LENLENS"]

\* The lengths of the code length code arrive in this order of its symbols.
CodeOrder == <<16, 17, 18, 0, 8, 7, 9, 6, 10, 5, 11, 4, 12, 3, 13, 2, 14, 1, 15>>
CodeLengthLens(lens) ==
    [i \in 1..19 |-> IF \E k \in 1..Len(lens) : CodeOrder[k] = i - 1
                     THEN lens[CHOOSE k \in 1..Len(lens) : CodeOrder[k] = i - 1]
                     ELSE 0]
\* case LENLENS, all ncode lengths are there: the code length code.
CaseLenLens(d) ==
    IF ~TableOk(CodeLengthLens(d.lens), TRUE) THEN Fail(d)
    ELSE [d EXCEPT !.st = "CODELENS", !.lencode = CodeLengthLens(d.lens), !.lens = <<>>]

\* case CODELENS on a repeat code (16: the last length 3..6 times, 17: zero
\* 3..10 times, 18: zero 11..138 times), its extra bits are there.
RepeatExtra(sym) == IF sym = 16 THEN 2 ELSE IF sym = 17 THEN 3 ELSE 7
CaseRepeat(d, sym, copy) ==
    IF sym = 16 /\ d.lens = <<>> THEN Fail(d)
    ELSE IF Len(d.lens) + copy > d.nlen + d.ndist THEN Fail(d)
    ELSE [DropBits(d, RepeatExtra(sym))
             EXCEPT !.lens = @ \o [k \in 1..copy |-> IF sym = 16 THEN d.lens[Len(d.lens)] ELSE 0]]
\* case CODELENS, all nlen + ndist lengths are there: the two codes; the
\* end-of-block symbol must have a code.
CaseCodeLens(d) ==
    IF \/ d.lens[257] = 0
       \/ ~TableOk(SubSeq(d.lens, 1, d.nlen), FALSE)
       \/ ~TableOk(SubSeq(d.lens, d.nlen + 1, Len(d.lens)), FALSE)
    THEN Fail(d)
    ELSE [d EXCEPT !.st = "LEN", !.lencode = SubSeq(d.lens, 1, d.nlen),
                   !.distcode = SubSeq(d.lens, d.nlen + 1, Len(d.lens)), !.lens = <<>>]

\* case LEN on the decoded symbol: a literal, the end of the block, a length
\* code, or a code that is none.
CaseLen(d, sym) ==
    IF sym < 0 THEN Fail(d)
    ELSE IF sym < 256 THEN Emit(d, <<sym>>)
    ELSE IF sym = 256 THEN [d EXCEPT !.st = "TYPE"]
    ELSE IF sym >= 286 THEN Fail(d)
    ELSE [d EXCEPT !.st = "LENEXT", !.length = LengthBase[sym - 256],
                   !.extra = LengthExtra[sym - 256]]

\* case DIST on the decoded symbol; the fixed codes 30 and 31 are invalid.
CaseDist(d, sym) ==
    IF sym < 0 \/ sym >= 30 THEN Fail(d)
    ELSE [d EXCEPT !.st = "DISTEXT", !.offset = DistBase[sym + 1], !.extra = DistExtra[sym + 1]]

\* case DISTEXT, the extra bits are there, the distance is offset; case
\* MATCH: length bytes from offset back in the window, one at a time,
\* so that a copy longer than offset repeats the last offset bytes.
CopyMatch(win, offset, length) ==
    [k \in 1..length |-> win[Len(win) - offset + 1 + ((k - 1) % offset)]]
CaseMatch(d, offset) ==
    IF offset > Len(d.win) THEN Fail(d)
    ELSE [Emit(d, CopyMatch(d.win, offset, d.length)) EXCEPT !.st = "LEN", !.offset = offset]

\* case CHECK, the 32 bits are there: the check of the output.
CaseCheck(d) ==
    IF <<BitsVal(d.hold, 1, 8), BitsVal(d.hold, 9, 16), BitsVal(d.hold, 17, 24),
         BitsVal(d.hold, 25, 32)>> # CheckBytes(d)
    THEN Fail(d)
    ELSE [d EXCEPT !.st = "DONE", !.hold = <<>>]

\* inflate's loop on the bits held: one case after the other until a case
\* needs more input than is held, or the stream is over.
RECURSIVE Drain(_)
RECURSIVE DrainCode(_, _)
RECURSIVE DrainCodeLens(_, _)
Drain(d) ==
    CASE d.st = "HEAD" -> IF Len(d.hold) < 16 THEN d ELSE Drain(CaseHead(d))
      [] d.st = "DICTID" -> IF Len(d.hold) < 32 THEN d ELSE [d EXCEPT !.st = "DICT", !.hold = <<>>]
      [] d.st = "TYPE" -> IF d.last
                          THEN Drain([DropBits(d, Len(d.hold) % 8) EXCEPT !.st = "CHECK"])
                          ELSE IF Len(d.hold) < 3 THEN d ELSE Drain(CaseType(d))
      [] d.st = "STORED" -> IF Len(d.hold) % 8 # 0 THEN Drain(DropBits(d, Len(d.hold) % 8))
                            ELSE IF Len(d.hold) < 32 THEN d ELSE Drain(CaseStored(d))
      [] d.st = "COPY" -> IF d.length > 0 THEN d ELSE Drain([d EXCEPT !.st = "TYPE"])
      [] d.st = "TABLE" -> IF Len(d.hold) < 14 THEN d ELSE Drain(CaseTable(d))
      [] d.st = "LENLENS" -> IF Len(d.lens) >= d.ncode THEN Drain(CaseLenLens(d))
                             ELSE IF Len(d.hold) < 3 THEN d
                             ELSE Drain([DropBits(d, 3)
                                            EXCEPT !.lens = Append(@, BitsVal(d.hold, 1, 3))])
      [] d.st = "CODELENS" -> IF Len(d.lens) >= d.nlen + d.ndist THEN Drain(CaseCodeLens(d))
                              ELSE DrainCodeLens(d, CodeAt(d.lencode, d.hold, 1))
      [] d.st = "LEN" -> DrainCode(d, IF d.lencode = <<>> THEN FixedSym(d.hold)
                                      ELSE CodeAt(d.lencode, d.hold, 1))
      [] d.st = "LENEXT" -> IF Len(d.hold) < d.extra THEN d ELSE Drain([DropBits(d, d.extra)
                                         EXCEPT !.st = "DIST",
                                                !.length = @ + BitsVal(d.hold, 1, d.extra)])
      [] d.st = "DIST" -> DrainCode(d, IF d.distcode # <<>> THEN CodeAt(d.distcode, d.hold, 1)
                                       ELSE IF Len(d.hold) < 5 THEN NeedMore
                                       ELSE [sym |-> HuffVal(d.hold, 5), bits |-> 5])
      [] d.st = "DISTEXT" -> IF Len(d.hold) < d.extra THEN d ELSE Drain(CaseMatch(DropBits(d, d.extra),
                                                  d.offset + BitsVal(d.hold, 1, d.extra)))
      [] d.st = "CHECK" -> IF Len(d.hold) < 32 THEN d ELSE Drain(CaseCheck(d))
      [] OTHER -> d
\* The code of the block's literal/length code (case LEN) or distance code
\* (case DIST) at the head of hold; the fixed distance code has five bits.
DrainCode(d, code) ==
    IF code.bits = 0 THEN d
    ELSE IF d.st = "LEN" THEN Drain(CaseLen(DropBits(d, code.bits), code.sym))
    ELSE Drain(CaseDist(DropBits(d, code.bits), code.sym))
\* A code length below 16 stands for itself (the table of no code at all
\* gives 0); a repeat code waits for its extra bits.
DrainCodeLens(d, code) ==
    IF code.bits = 0 THEN d
    ELSE IF code.sym < 16
    THEN Drain([DropBits(d, code.bits) EXCEPT !.lens = Append(@, IF code.sym < 0 THEN 0
                                                                 ELSE code.sym)])
    ELSE IF Len(d.hold) < code.bits + RepeatExtra(code.sym) THEN d
    ELSE Drain(CaseRepeat(DropBits(d, code.bits), code.sym,
                          (IF code.sym = 18 THEN 11 ELSE 3)
                          + BitsVal(d.hold, code.bits + 1, code.bits + RepeatExtra(code.sym))))

\* One byte of input: in a stored block it is output as it is, else its
\* bits join the bits held; then the loop runs.  After the end of the
\* stream, and after a failure, the input is passed over.
TakeByte(d, b) ==
    IF d.st = "COPY"
    THEN [Emit(d, <<b>>) EXCEPT !.length = @ - 1]
    ELSE [d EXCEPT !.hold = @ \o ValueBits(b, 8)]
InflateFrom(d, e) == [dec |-> e, out |-> SubSeq(e.win, Len(d.win) + 1, Len(e.win))]
InflateByte(d, b) ==
    IF d.st \in {"DONE", "BAD", "DICT"} THEN [dec |-> d, out |-> <<>>]
    ELSE InflateFrom(d, Drain(TakeByte(d, b)))

\* decompressor.decompress(chunk) followed by flush(): the bytes of
\* chunk[lo..hi] in order.
InflateJoin(a, b) == [dec |-> b.dec, out |-> a.out \o b.out]

RECURSIVE InflateRange(_, _, _, _)
RECURSIVE InflateRest(_, _, _, _)
InflateRange(d, chunk, lo, hi) ==
    IF lo > hi THEN [dec |-> d, out |-> <<>>]
    ELSE IF lo = hi THEN InflateByte(d, chunk[lo])
    ELSE InflateRest(InflateRange(d, chunk, lo, (lo + hi) \div 2),
                     chunk, (lo + hi) \div 2 + 1, hi)

\* The second half of a range, after the first half has given a.
InflateRest(a, chunk, lo, hi) ==
    IF a.dec.st \in {"DONE", "BAD", "DICT"} THEN a
    ELSE InflateJoin(a, InflateRange(a.dec, chunk, lo, hi))

Inflate(d, chunk) == InflateRange(d, chunk, 1, Len(chunk))

\* Line 177 on what lines 175-176 gave: a failed decompression raised
\* before it, else the output is decoded.
DecodeDataStream(r) ==
    IF r.dec.st \in {"BAD", "DICT"}
    THEN [dec |-> r.dec, ok |-> FALSE, err |-> "zlib.error", text |-> <<>>]
    ELSE IF ~Decode(r.out).ok
    THEN [dec |-> r.dec, ok |-> FALSE, err |-> "UnicodeDecodeError", text |-> <<>>]
    ELSE [dec |-> r.dec, ok |-> TRUE, err |-> "", text |-> Decode(r.out).text]

\* DataIO._decompress_data_stream: decompress(), flush(), decode().
\* [dec, ok, err, text].  The flush() of the call that reaches the end of
\* the stream ends the decompressor: a later call raises zlib.error, as
\* does every call on a failed one.
DecompressDataStream(d, chunk) ==
    IF d.st \in {"DONE", "BAD", "DICT"}
    THEN [dec |-> d, ok |-> FALSE, err |-> "zlib.error", text |-> <<>>]
    ELSE DecodeDataStream(Inflate(d, chunk))

\* ------------------------------------------------------------- the ledger

KeyAmount == <<100, 97, 116, 97, 32, 99, 104, 117, 110, 107, 32, 97, 109, 111, 117, 110, 116>>
KeyLength == <<100, 97, 116, 97, 32, 99, 104, 117, 110, 107, 32, 115, 116, 114, 105, 110,
               103, 32, 108, 101, 110, 103, 116, 104>>
Quote == <<34>>
Colon == <<58, 32>>
Comma == <<44, 32>>

\* str(n) for n >= 0.
RECURSIVE IntToStr(_)
IntToStr(n) == IF n < 10 THEN <<48 + n>>
               ELSE IntToStr(n \div 10) \o <<48 + (n % 10)>>

RECURSIVE JoinInts(_)
JoinInts(s) == IF s = <<>> THEN <<>>
               ELSE IF Len(s) = 1 THEN IntToStr(s[1])
               ELSE IntToStr(s[1]) \o Comma \o JoinInts(Tail(s))

\* json.dumps({"data chunk amount": n, "data chunk string length": lens})
JsonDumps(n, lens) ==
    <<123>> \o Quote \o KeyAmount \o Quote \o Colon \o IntToStr(n) \o Comma
    \o Quote \o KeyLength \o Quote \o Colon \o <<91>> \o JoinInts(lens) \o <<93, 125>>

\* The text the reader searches for: '{"' followed by the first key.
Marker == <<123>> \o Quote \o KeyAmount

IsDigit(c) == c >= 48 /\ c <= 57

\* The position after the digits that start at position i of s.
RECURSIVE DigitsEnd(_, _)
DigitsEnd(s, i) == IF i <= Len(s) /\ IsDigit(s[i]) THEN DigitsEnd(s, i + 1) ELSE i

RECURSIVE StrToInt(_)
StrToInt(digits) == IF digits = <<>> THEN 0
                    ELSE 10 * StrToInt(SubSeq(digits, 1, Len(digits) - 1))
                         + (digits[Len(digits)] - 48)

\* A JSON number without sign at position i, its digits ending before j:
\* no leading zero.
IntFrom(s, i, j) ==
    [ok |-> j > i /\ ~(s[i] = 48 /\ j > i + 1),
     val |-> StrToInt(SubSeq(s, i, j - 1)),
     next |-> j]

ParseInt(s, i) == IntFrom(s, i, DigitsEnd(s, i))

\* The elements of a non-empty JSON list of numbers, from position i on,
\* up to and including the closing bracket; p is the number at i.
RECURSIVE ParseList(_, _, _)
RECURSIVE ParseListFrom(_, _, _, _)
ParseList(s, i, acc) == ParseListFrom(s, i, acc, ParseInt(s, i))

ParseListFrom(s, i, acc, p) ==
    IF ~p.ok THEN [ok |-> FALSE, lens |-> <<>>, next |-> i]
    ELSE IF OccursAt(s, Comma, p.next)
    THEN ParseList(s, p.next + 2, Append(acc, p.val))
    ELSE IF OccursAt(s, <<93>>, p.next)
    THEN [ok |-> TRUE, lens |-> Append(acc, p.val), next |-> p.next + 1]
    ELSE [ok |-> FALSE, lens |-> <<>>, next |-> i]

\* A JSON list of numbers from position k on, the empty list included.
ParseLens(s, k) == IF OccursAt(s, <<93>>, k)
                   THEN [ok |-> TRUE, lens |-> <<>>, next |-> k + 1]
                   ELSE ParseList(s, k, <<>>)

JsonFail == [ok |-> FALSE, dict |-> FALSE, amount |-> 0, lens |-> <<>>]

\* The ledger text up to the count, and between the count and the lengths.
LedgerPrefix == Marker \o Quote \o Colon
LedgerMiddle == Comma \o Quote \o KeyLength \o Quote \o Colon \o <<91>>

\* The object ends with the list l and nothing follows it.
JsonObjectEnd(s, n, l) ==
    IF l.ok /\ OccursAt(s, <<125>>, l.next) /\ l.next = Len(s)
    THEN [ok |-> TRUE, dict |-> TRUE, amount |-> n.val, lens |-> l.lens]
    ELSE JsonFail

\* The object after its first key, n being the number that follows it.
JsonObject(s, n) ==
    IF n.ok /\ OccursAt(s, LedgerMiddle, n.next)
    THEN JsonObjectEnd(s, n, ParseLens(s, n.next + Len(LedgerMiddle)))
    ELSE JsonFail

\* json.loads on the texts the reader hands it: the object json.dumps wrote,
\* or a text of one digit (a number); anything else raises JSONDecodeError.
JsonLoads(s) ==
    IF Len(s) = 1 /\ IsDigit(s[1])
    THEN [ok |-> TRUE, dict |-> FALSE, amount |-> s[1] - 48, lens |-> <<>>]
    ELSE IF OccursAt(s, LedgerPrefix, 1)
    THEN JsonObject(s, ParseInt(s, Len(LedgerPrefix) + 1))
    ELSE JsonFail

\* What _get_meta_data_from_json returns or raises: kind is "none" (None),
\* "dict", "int" or "error" (JSONDecodeError).
NoMeta == [kind |-> "none", amount |-> 0, lens |-> <<>>]

\* Line 210: what json.loads gave, j, as the meta data.
LoadedMeta(j) ==
    IF ~j.ok THEN [NoMeta EXCEPT !.kind = "error"]
    ELSE [kind |-> IF j.dict THEN "dict" ELSE "int", amount |-> j.amount, lens |-> j.lens]

\* DataIO._get_meta_data_from_json: None unless both keys occur in the text,
\* else what json.loads gives from the marker on.
GetMetaDataFromJson(text) ==
    IF ~Contains(text, KeyAmount) \/ ~Contains(text, KeyLength) THEN NoMeta
    ELSE LoadedMeta(JsonLoads(SliceFrom(text, Find(text, Marker))))

\* Python's truth value of the meta data: None and 0 are false.
Truthy(meta) == meta.kind = "dict" \/ (meta.kind = "int" /\ meta.amount # 0)

\* file.read(n) at offset pos (0-based) and the offset file.tell() reports
\* afterwards; a position at or past the end reads nothing and stays.
ReadAt(bytes, pos, n) == IF pos >= Len(bytes) THEN <<>>
                         ELSE SubSeq(bytes, pos + 1, Min(pos + n, Len(bytes)))
\* file.tell() that does not move.
TellAfterStuck(bytes, pos, n) == pos

\* Line 108, file.tell() after the read of line 107 at pos.
TellAfter(bytes, pos, n) == IF pos >= Len(bytes) THEN pos ELSE Min(pos + n, Len(bytes))

\* Lines 219-224 after the chunk has been decompressed and searched: a
\* JSONDecodeError, the raise after the last chunk when the result is not
\* true, or the result, which replaces that of the chunk before.
MetaChecked(dec, meta, atEnd) ==
    IF meta.kind = "error"
    THEN [dec |-> dec, ok |-> FALSE, err |-> "JSONDecodeError", meta |-> NoMeta]
    ELSE IF atEnd /\ ~Truthy(meta)
    THEN [dec |-> dec, ok |-> FALSE, err |-> "MetadataNotFound", meta |-> NoMeta]
    ELSE [dec |-> dec, ok |-> TRUE, err |-> "", meta |-> meta]

\* Line 219 on the decompressed chunk r: its text alone is searched.
MetaOfChunk(r, atEnd) ==
    IF ~r.ok THEN [dec |-> r.dec, ok |-> FALSE, err |-> r.err, meta |-> NoMeta]
    ELSE MetaChecked(r.dec, GetMetaDataFromJson(r.text), atEnd)

\* One turn of the loop of _get_meta_data_from_file on chunk number i
\* (from 0) of last+1 chunks.  s is [dec, ok, err, meta].
MetaStep(s, bytes, bsize, i, last) ==
    IF ~s.ok THEN s
    ELSE MetaOfChunk(DecompressDataStream(s.dec, ReadAt(bytes, i * bsize, bsize)), i = last)

\* The turns lo..hi of the loop, in order.
RECURSIVE MetaLoop(_, _, _, _, _, _)
RECURSIVE MetaLoopRest(_, _, _, _, _, _)
MetaLoop(s, bytes, bsize, lo, hi, last) ==
    IF lo > hi THEN s
    ELSE IF lo = hi THEN MetaStep(s, bytes, bsize, lo, last)
    ELSE MetaLoopRest(MetaLoop(s, bytes, bsize, lo, (lo + hi) \div 2, last),
                      bytes, bsize, (lo + hi) \div 2 + 1, hi, last)

MetaLoopRest(a, bytes, bsize, lo, hi, last) ==
    IF ~a.ok THEN a ELSE MetaLoop(a, bytes, bsize, lo, hi, last)

\* The number (from 0) of the last chunk of buffer_size bytes of the file.
LastChunk(bytes, bsize) == ((Len(bytes) + bsize - 1) \div bsize) - 1

\* Lines 225-226: the decompressor is reset when the loop ends without
\* raising.
MetaAfterLoop(s) == IF s.ok THEN [s EXCEPT !.dec = NewDecompressor] ELSE s

\* DataIO._get_meta_data_from_file on an existing file: [dec, ok, err, meta].
\* On an empty file the loop is skipped, the decompressor is reset and
\* meta_data is unbound at the return.
GetMetaDataFromFile(d, bytes, bsize) ==
    IF bytes = <<>>
    THEN [dec |-> NewDecompressor, ok |-> FALSE, err |-> "UnboundLocalError", meta |-> NoMeta]
    ELSE MetaAfterLoop(MetaLoop([dec |-> d, ok |-> TRUE, err |-> "", meta |-> NoMeta],
                                bytes, bsize, 0, LastChunk(bytes, bsize),
                                LastChunk(bytes, bsize)))

\* ------------------------------------------------------------------ state

VARIABLES
    files,                      \* target -> [exists, bytes]: the .stream files
    compressor,                 \* self.compressor
    decompressor,               \* self.decompressor
    data_stream_append_mode,    \* self._data_stream_append_mode
    data_stream_load_mode,      \* self._data_stream_load_mode
    data_stream_chunk_amount,   \* self._data_stream_chunk_amount
    data_stream_string_len,     \* self._data_stream_string_len
    load_index,                 \* self._load_index
    load_chunk_total,           \* self._load_chunk_total
    load_chunk_string_length,   \* self._load_chunk_string_length
    load_data_buffer,           \* self._load_data_buffer
    string_length_loaded,       \* self._string_length_loaded
    current_chunk_to_load,      \* self._current_chunk_to_load
    current_chunk_loaded,       \* self._current_chunk_loaded
    ret,                        \* the last call: what it was and how it ended
    npush,                      \* writing calls made so far
    nmeta,                      \* direct calls of _get_meta_data_from_file so far
    wsession,                   \* the caller's Write Session: target, records pushed
    written,                    \* target -> the records of the session that finalized it
    rsession,                   \* the caller's Read Session: target, pulls made
    meta_result,                \* the direct call of _get_meta_data_from_file, if it was the last call
    accumulated,                \* the records counted since _reset_meta_information last ran
    reading,                    \* the target the active Read Session was started on
    call,                       \* the pull whose read loop is running, turn by turn
    decoded,                    \* the last text given to the ledger decoding, and its outcome
    reads,                      \* the pulls of the last finished reading and of the current one
    alone                       \* a second instance that makes the same pulls and no push

writerVars == <<compressor, data_stream_append_mode, data_stream_chunk_amount,
                data_stream_string_len>>
loaderVars == <<decompressor, data_stream_load_mode, load_index, load_chunk_total,
                load_chunk_string_length, load_data_buffer, string_length_loaded,
                current_chunk_to_load, current_chunk_loaded>>
vars == <<files, writerVars, loaderVars, ret, npush, nmeta, wsession, written, rsession,
          meta_result, accumulated, reading, call, decoded, reads, alone>>

NoFile == [exists |-> FALSE, bytes |-> <<>>]
NoSession == [open |-> FALSE, t |-> "", recs |-> <<>>, first |-> FALSE, plain |-> FALSE]
NotFinalized == [fin |-> FALSE, recs |-> <<>>, first |-> FALSE, plain |-> FALSE]
NoRead == [t |-> "", n |-> 0, clean |-> TRUE, done |-> ""]
NoMetaCall == [called |-> FALSE, t |-> "", bsize |-> 0, fresh |-> FALSE, kind |-> "none",
               err |-> "", amount |-> 0, lens |-> <<>>]

\* No Read Session is active.  Of an active one: t is the target of the
\* pull that set the load mode, pure says that this target was finalized by
\* the first Write Session of a writer and that since then every pull named
\* it and nothing else touched its file or the decompressor, n is the number
\* of records its pulls have returned.
NotReading == [t |-> "", pure |-> FALSE, n |-> 0]

\* No pull has been recorded.  prev is the pulls of the last reading that
\* went to the end (its last pull returned None), cur the pulls since; a pull
\* is recorded as its buffer size and what the caller got.
NoReads == [done |-> FALSE, prev |-> <<>>, cur |-> <<>>]

\* _get_meta_data_from_json has not been called on its own.
NotDecoded == [called |-> FALSE, text |-> <<>>, meta |-> NoMeta]

\* The lengths of the records recs, in code points.
LengthsOf(recs) == [i \in 1..Len(recs) |-> Len(recs[i])]

\* No call of load_and_decompress_data_stream is inside its while loop.
NoPull == [active |-> FALSE, t |-> "", bsize |-> 0]

RECURSIVE Concat(_)
Concat(recs) == IF recs = <<>> THEN <<>> ELSE Head(recs) \o Concat(Tail(recs))

\* The file one Write Session of a fresh instance leaves at close.
FinalizedFile(recs) ==
    LET lens == [i \in 1..Len(recs) |-> Len(recs[i])]
        c0   == CompressNext(NewCompressor, Encode(Concat(recs)))
        c1   == CompressNext(c0, Encode(JsonDumps(Len(recs), lens)))
    IN CompressOut(NewCompressor, <<>>) \o FlushOut(c1)

\* Target B was written and closed by an earlier instance.
PriorRecords == << <<97>>, <<233>> >>

\* The loader fields as __init__ and _reset_data_stream_load_mode set them.
ResetLoader == [mode |-> FALSE, idx |-> 0, total |-> 0, lens |-> <<>>, buf |-> <<>>,
                dec |-> NewDecompressor, to_load |-> 0, cur |-> 0, loaded |-> 0]

\* The loader of a new instance, and (nothing yet) what its last pull gave.
NewInstance == [L |-> ResetLoader, kind |-> "ok", val |-> <<>>, err |-> ""]

Loader == [mode |-> data_stream_load_mode, idx |-> load_index, total |-> load_chunk_total,
           lens |-> load_chunk_string_length, buf |-> load_data_buffer,
           dec |-> decompressor, to_load |-> current_chunk_to_load,
           cur |-> current_chunk_loaded, loaded |-> string_length_loaded]

SetLoader(L) ==
    /\ data_stream_load_mode' = L.mode
    /\ load_index' = L.idx
    /\ load_chunk_total' = L.total
    /\ load_chunk_string_length' = L.lens
    /\ load_data_buffer' = L.buf
    /\ decompressor' = L.dec
    /\ current_chunk_to_load' = L.to_load
    /\ current_chunk_loaded' = L.cur
    /\ string_length_loaded' = L.loaded

\* The last call and how it ended: kind is "ok", "none" (a pull returned
\* None) or "error" (err names what was raised), val the record a pull
\* returned.  The other fields say how the call was made: for a push its
\* overwrite and close flags, whether the file existed and whether the
\* caller's Write Session was open for the target; for a pull its number in
\* the caller's Read Session (0 outside a clean one), whether all records
\* of the loaded ledger had been returned before it, and whether the pull
\* before it ended the caller's session on this target with None.
NoCall == [op |-> "init", t |-> "", kind |-> "ok", val |-> <<>>, err |-> "",
           overwrite |-> FALSE, close |-> FALSE, existed |-> FALSE, insession |-> FALSE,
           k |-> 0, allpulled |-> FALSE, pastend |-> FALSE]

PushResult(t, overwrite, close, kind, err) ==
    [NoCall EXCEPT !.op = "push", !.t = t, !.kind = kind, !.err = err,
                   !.overwrite = overwrite, !.close = close,
                   !.existed = files[t].exists,
                   !.insession = wsession.open /\ wsession.t = t]

SetLoaderInit ==
    /\ data_stream_load_mode = FALSE
    /\ load_index = 0
    /\ load_chunk_total = 0
    /\ load_chunk_string_length = <<>>
    /\ load_data_buffer = <<>>
    /\ decompressor = NewDecompressor
    /\ current_chunk_to_load = 0
    /\ current_chunk_loaded = 0
    /\ string_length_loaded = 0

Init ==
    /\ files = [t \in Targets |-> IF t = "B"
                                  THEN [exists |-> TRUE, bytes |-> FinalizedFile(PriorRecords)]
                                  ELSE NoFile]
    /\ compressor = NewCompressor
    /\ data_stream_append_mode = FALSE
    /\ data_stream_chunk_amount = 0
    /\ data_stream_string_len = <<>>
    /\ SetLoaderInit
    /\ ret = NoCall
    /\ npush = 0
    /\ nmeta = 0
    /\ wsession = NoSession
    /\ written = [t \in Targets |-> IF t = "B"
                                    THEN [fin |-> TRUE, recs |-> PriorRecords,
                                          first |-> TRUE, plain |-> TRUE]
                                    ELSE NotFinalized]
    /\ rsession = NoRead
    /\ meta_result = NoMetaCall
    /\ accumulated = <<>>
    /\ reading = NotReading
    /\ call = NoPull
    /\ decoded = NotDecoded
    /\ reads = NoReads
    /\ alone = NewInstance

\* ----------------------------------------------------------------- writer

\* The file of t was finalized by a Write Session that was the first use of
\* its instance's writer, on an absent or overwritten file, without a later
\* overwrite, and has not been written since.
CleanlyFinalized(t) == written[t].fin /\ written[t].first /\ written[t].plain

\* The caller's view of a push that did not raise: a push to the target of
\* the open Write Session continues it, any other push opens a session (and
\* abandons the open one).  first: the session is the first thing the
\* instance is asked to write and it started on an absent or overwritten
\* file; plain: no later push of it asked for overwrite.
SessionAfterPush(t, data, overwrite) ==
    IF wsession.open /\ wsession.t = t
    THEN [wsession EXCEPT !.recs = Append(@, data), !.plain = @ /\ ~overwrite]
    ELSE [open |-> TRUE, t |-> t, recs |-> <<data>>,
          first |-> npush = 0 /\ (overwrite \/ ~files[t].exists), plain |-> TRUE]

\* A push that changes the file of the target being read ends the
\* cleanness of the Read Session.
ReadAfterWrite(t) == IF rsession.t = t THEN [NoRead EXCEPT !.clean = FALSE]
                     ELSE IF rsession.done = t THEN [rsession EXCEPT !.done = ""]
                     ELSE rsession

\* add_and_compress_data_stream, lines 70-71: the target exists, overwrite
\* is not asked for and the instance is not in append mode.
PushAlreadyExists(t, data, overwrite, close) ==
    /\ files[t].exists /\ ~overwrite /\ ~data_stream_append_mode
    /\ ret' = PushResult(t, overwrite, close, "error", "AlreadyExists")
    /\ UNCHANGED <<files, writerVars, wsession, written, rsession, accumulated>>

\* Lines 72-81 with line 80 before line 79: the record is counted before
\* compress() raises.
PushCompressErrorCounted(t, data, overwrite, close) ==
    /\ ~(files[t].exists /\ ~overwrite /\ ~data_stream_append_mode)
    /\ compressor.fin
    /\ files' = [files EXCEPT ![t] = IF files[t].exists /\ overwrite THEN NoFile ELSE @]
    /\ data_stream_append_mode' = TRUE
    /\ data_stream_chunk_amount' = data_stream_chunk_amount + 1
    /\ ret' = PushResult(t, overwrite, close, "error", "zlib.error")
    /\ written' = [written EXCEPT ![t] = IF files[t].exists /\ overwrite
                                         THEN NotFinalized ELSE @]
    /\ rsession' = IF files[t].exists /\ overwrite THEN ReadAfterWrite(t) ELSE rsession
    /\ UNCHANGED <<compressor, data_stream_string_len, wsession, accumulated>>

\* Lines 72-79 on a compressor that flush() has finished: the file is
\* removed if overwrite asks for it, the append flag is set, and
\* compress() raises zlib.error.
PushCompressError(t, data, overwrite, close) ==
    /\ ~(files[t].exists /\ ~overwrite /\ ~data_stream_append_mode)
    /\ compressor.fin
    /\ files' = [files EXCEPT ![t] = IF files[t].exists /\ overwrite THEN NoFile ELSE @]
    /\ data_stream_append_mode' = TRUE
    /\ ret' = PushResult(t, overwrite, close, "error", "zlib.error")
    /\ written' = [written EXCEPT ![t] = IF files[t].exists /\ overwrite
                                         THEN NotFinalized ELSE @]
    /\ rsession' = IF files[t].exists /\ overwrite THEN ReadAfterWrite(t) ELSE rsession
    /\ UNCHANGED <<compressor, data_stream_chunk_amount, data_stream_string_len, wsession,
                   accumulated>>

\* Lines 72-95 with line 81 appending the length after the ledger has been
\* written: the ledger of a closing push lacks the length of its record.
PushWriteLengthLate(t, data, overwrite, close) ==
    /\ ~(files[t].exists /\ ~overwrite /\ ~data_stream_append_mode)
    /\ ~compressor.fin
    /\ LET base       == IF files[t].exists /\ ~overwrite THEN files[t].bytes ELSE <<>>
           compressed == CompressOut(compressor, Encode(data))
           c1         == CompressNext(compressor, Encode(data))
           amount     == data_stream_chunk_amount + 1
           meta       == Encode(JsonDumps(amount, data_stream_string_len))
           c2         == CompressNext(c1, meta)
           sess       == SessionAfterPush(t, data, overwrite)
       IN IF close
          THEN /\ files' = [files EXCEPT ![t] =
                              [exists |-> TRUE,
                               bytes |-> base \o compressed \o CompressOut(c1, meta)
                                              \o FlushOut(c2)]]
               /\ compressor' = FlushNext(c2)
               /\ data_stream_append_mode' = FALSE
               /\ data_stream_chunk_amount' = 0
               /\ data_stream_string_len' = <<>>
               /\ wsession' = NoSession
               /\ written' = [written EXCEPT ![t] =
                                [fin |-> TRUE, recs |-> sess.recs,
                                 first |-> sess.first, plain |-> sess.plain]]
          ELSE /\ files' = [files EXCEPT ![t] =
                              [exists |-> TRUE, bytes |-> base \o compressed]]
               /\ compressor' = c1
               /\ data_stream_append_mode' = TRUE
               /\ data_stream_chunk_amount' = amount
               /\ data_stream_string_len' = Append(data_stream_string_len, Len(data))
               /\ wsession' = sess
               /\ written' = [written EXCEPT ![t] = NotFinalized]
    /\ ret' = PushResult(t, overwrite, close, "ok", "")
    /\ rsession' = ReadAfterWrite(t)
    /\ accumulated' = IF close THEN <<>> ELSE Append(accumulated, data)

\* Lines 72-95 otherwise: remove on overwrite, compress, count, append to the
\* file; at close the ledger and the flush bytes follow and the writer's
\* flag and ledger accumulator are reset.
PushWrite(t, data, overwrite, close) ==
    /\ ~(files[t].exists /\ ~overwrite /\ ~data_stream_append_mode)
    /\ ~compressor.fin
    /\ LET base       == IF files[t].exists /\ ~overwrite THEN files[t].bytes ELSE <<>>
           compressed == CompressOut(compressor, Encode(data))
           c1         == CompressNext(compressor, Encode(data))
           amount     == data_stream_chunk_amount + 1
           lens       == Append(data_stream_string_len, Len(data))
           meta       == Encode(JsonDumps(amount, lens))
           c2         == CompressNext(c1, meta)
           sess       == SessionAfterPush(t, data, overwrite)
       IN IF close
          THEN /\ files' = [files EXCEPT ![t] =
                              [exists |-> TRUE,
                               bytes |-> base \o compressed \o CompressOut(c1, meta)
                                              \o FlushOut(c2)]]
               /\ compressor' = FlushNext(c2)
               /\ data_stream_append_mode' = FALSE
               /\ data_stream_chunk_amount' = 0
               /\ data_stream_string_len' = <<>>
               /\ wsession' = NoSession
               /\ written' = [written EXCEPT ![t] =
                                [fin |-> TRUE, recs |-> sess.recs,
                                 first |-> sess.first, plain |-> sess.plain]]
          ELSE /\ files' = [files EXCEPT ![t] =
                              [exists |-> TRUE, bytes |-> base \o compressed]]
               /\ compressor' = c1
               /\ data_stream_append_mode' = TRUE
               /\ data_stream_chunk_amount' = amount
               /\ data_stream_string_len' = lens
               /\ wsession' = sess
               /\ written' = [written EXCEPT ![t] = NotFinalized]
    /\ ret' = PushResult(t, overwrite, close, "ok", "")
    /\ rsession' = ReadAfterWrite(t)
    /\ accumulated' = IF close THEN <<>> ELSE Append(accumulated, data)

\* A push that gets past line 71 on the target being read writes to its
\* file or removes it.
ReadingAfterPush(t, err) ==
    IF reading.t = t /\ err # "AlreadyExists" THEN [reading EXCEPT !.pure = FALSE]
    ELSE reading

\* add_and_compress_data_stream with a push that also renews the
\* decompressor (one codec reset for both directions).
PushResetsDecompressor(t, data, overwrite, close) ==
    /\ npush < MaxPush
    /\ ~call.active
    /\ npush' = npush + 1
    /\ UNCHANGED nmeta
    /\ \/ PushAlreadyExists(t, data, overwrite, close)
       \/ PushCompressError(t, data, overwrite, close)
       \/ PushWrite(t, data, overwrite, close)
    /\ meta_result' = NoMetaCall
    /\ reading' = ReadingAfterPush(t, ret'.err)
    /\ decompressor' = NewDecompressor
    /\ UNCHANGED <<data_stream_load_mode, load_index, load_chunk_total,
                   load_chunk_string_length, load_data_buffer, string_length_loaded,
                   current_chunk_to_load, current_chunk_loaded, call, decoded, reads, alone>>

\* DataIO._compress_data: zlib.compress at the default level, the whole
\* stream at once.
CompressData(bytes) == Header \o DeflateBlock(bytes) \o Adler32(bytes)

\* DataIO.save_and_compress_data(t, data): the file of t is rewritten with
\* the one-shot stream of data, without a ledger; the instance is not
\* touched.  For the caller the file is no finalized Stream File any more,
\* a Write Session open on t no longer owns all of the file, and a reading
\* of t is disturbed.
SaveAndCompress(t, data) ==
    /\ ~call.active
    /\ npush < MaxPush
    /\ npush' = npush + 1
    /\ UNCHANGED nmeta
    /\ files' = [files EXCEPT ![t] = [exists |-> TRUE, bytes |-> CompressData(Encode(data))]]
    /\ ret' = [NoCall EXCEPT !.op = "save", !.t = t, !.existed = files[t].exists]
    /\ wsession' = IF wsession.open /\ wsession.t = t THEN [wsession EXCEPT !.plain = FALSE]
                   ELSE wsession
    /\ written' = [written EXCEPT ![t] = NotFinalized]
    /\ rsession' = ReadAfterWrite(t)
    /\ reading' = ReadingAfterPush(t, "")
    /\ meta_result' = NoMetaCall
    /\ UNCHANGED <<writerVars, loaderVars, accumulated, call, decoded, reads, alone>>

\* DataIO.add_and_compress_data_stream(t, data, overwrite, close)
Push(t, data, overwrite, close) ==
    /\ npush < MaxPush
    /\ ~call.active
    /\ npush' = npush + 1
    /\ UNCHANGED nmeta
    /\ \/ PushAlreadyExists(t, data, overwrite, close)
       \/ PushCompressError(t, data, overwrite, close)
       \/ PushWrite(t, data, overwrite, close)
    /\ meta_result' = NoMetaCall
    /\ reading' = ReadingAfterPush(t, ret'.err)
    /\ UNCHANGED <<loaderVars, call, decoded, reads, alone>>

\* ----------------------------------------------------------------- reader

\* Lines 122-131: slice the next record off the front of the buffer.
ExtractChunk(L) ==
    IF L.cur + 1 > Len(L.lens)
    THEN [L |-> L, kind |-> "error", val |-> <<>>, err |-> "IndexError"]
    ELSE LET chunk_len == L.lens[L.cur + 1]
         IN [L |-> [L EXCEPT !.buf = Drop(@, chunk_len),
                             !.to_load = @ + 1,
                             !.cur = @ + 1],
             kind |-> "ok", val |-> Take(L.buf, chunk_len), err |-> ""]

\* _check_chunk_in_data: count and buffer the text, compare the count with
\* the lengths of the records up to the current one.
CheckChunkInData(L, text) ==
    LET L2 == [L EXCEPT !.loaded = @ + Len(text), !.buf = @ \o text]
    IN [L |-> L2,
        in |-> L2.loaded >= SumSeq(Take(L.lens, L.to_load + 1))]

\* Line 111 with the comparison one off: the end is seen one pull late.
AllChunksReturnedLate(L) == L.cur > L.total

\* Line 111: every chunk of the loaded ledger has been returned.
AllChunksReturned(L) == L.cur > L.total - 1

\* The while loop of load_and_decompress_data_stream, lines 104-131, one
\* turn after the other: LoadLoop reads (106-108), LoadTurn tests the end
\* and the empty read (111-117), LoadChunk decompresses and counts (119),
\* LoadChecked extracts the record or goes round again (122-131).
RECURSIVE LoadLoop(_, _, _)
RECURSIVE LoadTurn(_, _, _, _)
RECURSIVE LoadChunk(_, _, _, _)
RECURSIVE LoadChecked(_, _, _)
LoadLoop(L, bytes, bsize) ==
    LoadTurn([L EXCEPT !.idx = TellAfter(bytes, L.idx, bsize)],
             ReadAt(bytes, L.idx, bsize), bytes, bsize)

\* Lines 111-113 with a reset that clears the load flag only.
LoadTurnFlagOnly(L, bin_buffer, bytes, bsize) ==
    IF AllChunksReturned(L)
    THEN [L |-> [L EXCEPT !.mode = FALSE], kind |-> "none", val |-> <<>>, err |-> ""]
    ELSE IF bin_buffer = <<>> THEN ExtractChunk(L)
    ELSE LoadChunk(L, DecompressDataStream(L.dec, bin_buffer), bytes, bsize)

LoadTurn(L, bin_buffer, bytes, bsize) ==
    IF AllChunksReturned(L)
    THEN [L |-> ResetLoader, kind |-> "none", val |-> <<>>, err |-> ""]
    ELSE IF bin_buffer = <<>> THEN ExtractChunk(L)
    ELSE LoadChunk(L, DecompressDataStream(L.dec, bin_buffer), bytes, bsize)

LoadChunk(L, r, bytes, bsize) ==
    IF ~r.ok
    THEN [L |-> [L EXCEPT !.dec = r.dec], kind |-> "error", val |-> <<>>, err |-> r.err]
    ELSE LoadChecked(CheckChunkInData([L EXCEPT !.dec = r.dec], r.text), bytes, bsize)

LoadChecked(c, bytes, bsize) ==
    IF c.in THEN ExtractChunk(c.L) ELSE LoadLoop(c.L, bytes, bsize)

\* Lines 232-233 on what Pass 1 gave, m: a failure is raised on, a result
\* that is no dict fails at the subscript, else the two ledger fields are
\* set.  [L, ok, err]
SetLedger(L, m) ==
    IF ~m.ok THEN [L |-> [L EXCEPT !.dec = m.dec], ok |-> FALSE, err |-> m.err]
    ELSE IF m.meta.kind # "dict"
    THEN [L |-> [L EXCEPT !.dec = m.dec], ok |-> FALSE, err |-> "TypeError"]
    ELSE [L |-> [L EXCEPT !.dec = m.dec, !.total = m.meta.amount, !.lens = m.meta.lens],
          ok |-> TRUE, err |-> ""]

\* _set_data_stream_load_mode: the flag first, then Pass 1 with the default
\* buffer size, then the two ledger fields.  [L, ok, err]
SetDataStreamLoadMode(L, file) ==
    IF ~file.exists
    THEN [L |-> [L EXCEPT !.mode = TRUE], ok |-> FALSE, err |-> "FileNotFoundError"]
    ELSE SetLedger([L EXCEPT !.mode = TRUE],
                   GetMetaDataFromFile(L.dec, file.bytes, DefaultBufferSize))

\* Lines 103-131 after lines 100-101 have given s.
LoadInMode(s, file, bsize) ==
    IF ~s.ok THEN [L |-> s.L, kind |-> "error", val |-> <<>>, err |-> s.err]
    ELSE IF ~file.exists
    THEN [L |-> s.L, kind |-> "error", val |-> <<>>, err |-> "FileNotFoundError"]
    ELSE LoadLoop(s.L, file.bytes, bsize)

\* Lines 100-101 without the test of the load mode: every pull runs Pass 1.
LoadAndDecompressReload(L, file, bsize) ==
    LoadInMode(SetDataStreamLoadMode(L, file), file, bsize)

\* load_and_decompress_data_stream(t, buffer_size): [L, kind, val, err]
LoadAndDecompress(L, file, bsize) ==
    LoadInMode(IF L.mode THEN [L |-> L, ok |-> TRUE, err |-> ""]
               ELSE SetDataStreamLoadMode(L, file),
               file, bsize)

\* The caller's view of a pull: pulls on one target form a Read Session
\* until one returns None; a pull that raises, or that names another target
\* than the session's, ends the cleanness of the reading for good.  done
\* is the target whose session the last pull ended with None.
DirtyRead == [NoRead EXCEPT !.clean = FALSE]

ReadAfterPull(t, kind) ==
    IF ~rsession.clean \/ kind = "error" \/ rsession.t \notin {"", t} THEN DirtyRead
    ELSE IF kind = "none" THEN [NoRead EXCEPT !.done = IF rsession.t = t THEN t ELSE ""]
    ELSE [NoRead EXCEPT !.t = t, !.n = rsession.n + 1]

\* The number of a pull on t in the caller's clean Read Session, else 0.
PullNumber(t) == IF rsession.clean /\ rsession.t \in {"", t} THEN rsession.n + 1 ELSE 0

\* A Read Session is active and has returned every record of its ledger.
AllPulled == /\ data_stream_load_mode
             /\ load_chunk_total >= 1
             /\ current_chunk_loaded >= load_chunk_total

\* The Read Session after a pull on t that ended with kind and left the load
\* mode as mode: a pull outside the load mode starts a session on t.
ReadingAfterPull(t, mode, kind) ==
    IF ~mode THEN NotReading
    ELSE IF ~data_stream_load_mode
    THEN [t |-> t, pure |-> CleanlyFinalized(t), n |-> IF kind = "ok" THEN 1 ELSE 0]
    ELSE [reading EXCEPT !.pure = @ /\ reading.t = t,
                         !.n = IF kind = "ok" THEN @ + 1 ELSE @]

\* DataIO.load_and_decompress_data_stream(t, buffer_size)
PullStep(t, bsize) ==
    \E r \in {LoadAndDecompress(Loader, files[t], bsize)} :
       /\ SetLoader(r.L)
       /\ ret' = [NoCall EXCEPT !.op = "pull", !.t = t, !.kind = r.kind, !.val = r.val,
                                !.err = r.err, !.existed = files[t].exists,
                                !.k = PullNumber(t), !.allpulled = AllPulled,
                                !.pastend = (rsession.done = t)]
       /\ rsession' = ReadAfterPull(t, r.kind)
       /\ reading' = ReadingAfterPull(t, r.L.mode, r.kind)
       /\ UNCHANGED <<files, writerVars, npush, nmeta, wsession, written, meta_result, accumulated,
                      call, decoded>>

\* A pull in the specifications that do not record the readings.
Pull(t, bsize) == PullStep(t, bsize) /\ UNCHANGED <<reads, alone>>

\* The readings after a pull with buffer size bsize that ended as r.
ReadsAfterPull(bsize, r) ==
    IF r.kind = "none"
    THEN [done |-> TRUE, cur |-> <<>>,
          prev |-> Append(reads.cur, [bsize |-> bsize, kind |-> r.kind, val |-> r.val,
                                      err |-> r.err])]
    ELSE [reads EXCEPT !.cur = Append(@, [bsize |-> bsize, kind |-> r.kind, val |-> r.val,
                                          err |-> r.err])]

\* A pull whose buffer size and outcome are recorded.
RecordedPull(t, bsize) ==
    /\ PullStep(t, bsize)
    /\ reads' = ReadsAfterPull(bsize, ret')
    /\ UNCHANGED alone

\* One instance reads the finalized target B to the end again and again,
\* with any buffer sizes.
NextReread == \E bsize \in BufSizes : RecordedPull("B", bsize)

SpecReread == Init /\ [][NextReread]_vars

\* A pull that a second instance, which makes no push, makes as well.
PullWithAlone(t, bsize) ==
    /\ PullStep(t, bsize)
    /\ alone' = LoadAndDecompress(alone.L, files[t], bsize)
    /\ UNCHANGED reads

\* One instance writes a session to the absent target A while it reads the
\* finalized target B: pushes and pulls in any order.
NextInterleave ==
    \/ \E data \in Records, close \in BOOLEAN : Push("A", data, FALSE, close)
    \/ \E bsize \in BufSizes : PullWithAlone("B", bsize)

SpecInterleave == Init /\ [][NextInterleave]_vars

Next ==
    \/ \E t \in Targets, data \in Records, overwrite \in BOOLEAN, close \in BOOLEAN :
          Push(t, data, overwrite, close)
    \/ \E t \in Targets, data \in Records : SaveAndCompress(t, data)
    \/ \E t \in Targets, bsize \in BufSizes : Pull(t, bsize)

Spec == Init /\ [][Next]_vars

\* DataIO._get_meta_data_from_file(t, buffer_size) called on its own, with
\* the decompressor as it is; fresh records that it was a new one.
GetMetaData(t, bsize) ==
    \E m \in {GetMetaDataFromFile(decompressor, files[t].bytes, bsize)} :
       /\ nmeta < MaxMeta
       /\ nmeta' = nmeta + 1
       /\ IF files[t].exists
          THEN /\ decompressor' = m.dec
               /\ meta_result' = [called |-> TRUE, t |-> t, bsize |-> bsize,
                                  fresh |-> decompressor = NewDecompressor,
                                  kind |-> IF m.ok THEN m.meta.kind ELSE "error",
                                  err |-> m.err,
                                  amount |-> m.meta.amount, lens |-> m.meta.lens]
          ELSE /\ decompressor' = decompressor
               /\ meta_result' = [NoMetaCall EXCEPT !.called = TRUE, !.t = t, !.bsize = bsize,
                                    !.fresh = decompressor = NewDecompressor,
                                    !.kind = "error", !.err = "FileNotFoundError"]
       /\ UNCHANGED <<files, writerVars, data_stream_load_mode, load_index,
                      load_chunk_total, load_chunk_string_length, load_data_buffer,
                      string_length_loaded, current_chunk_to_load, current_chunk_loaded,
                      ret, npush, wsession, written, rsession, accumulated, call, decoded,
                      reads, alone>>
       /\ reading' = [reading EXCEPT !.pure = FALSE]

\* Ledger discovery on its own, with every buffer size, on the files the
\* writer leaves.
NextMeta ==
    \/ \E t \in Targets, data \in Records, overwrite \in BOOLEAN, close \in BOOLEAN :
          Push(t, data, overwrite, close)
    \/ \E t \in Targets, bsize \in BufSizes : GetMetaData(t, bsize)

SpecMeta == Init /\ [][NextMeta]_vars

\* The records of the demo at lines 277-280: "more test1, testing until you
\* drop!", "more test2", "more test3", "more test4".
\* One turn of the while loop, lines 104-131, on its own: TurnOf tests the
\* end and the empty read (111-117), TurnChunk decompresses and counts (119),
\* TurnChecked extracts the record (122-131) or leaves the loop to go round
\* again (kind "again").
TurnChecked(c) ==
    IF c.in THEN ExtractChunk(c.L)
    ELSE [L |-> c.L, kind |-> "again", val |-> <<>>, err |-> ""]

TurnChunk(L, r) ==
    IF ~r.ok
    THEN [L |-> [L EXCEPT !.dec = r.dec], kind |-> "error", val |-> <<>>, err |-> r.err]
    ELSE TurnChecked(CheckChunkInData([L EXCEPT !.dec = r.dec], r.text))

TurnOf(L, bin_buffer) ==
    IF AllChunksReturned(L)
    THEN [L |-> ResetLoader, kind |-> "none", val |-> <<>>, err |-> ""]
    ELSE IF bin_buffer = <<>> THEN ExtractChunk(L)
    ELSE TurnChunk(L, DecompressDataStream(L.dec, bin_buffer))

\* Lines 106-108, then the rest of the turn.
OneTurn(L, bytes, bsize) ==
    TurnOf([L EXCEPT !.idx = TellAfter(bytes, L.idx, bsize)], ReadAt(bytes, L.idx, bsize))

\* Lines 100-101 of a call that is outside the load mode, else nothing.
EnterMode(file) ==
    IF data_stream_load_mode THEN [L |-> Loader, ok |-> TRUE, err |-> ""]
    ELSE SetDataStreamLoadMode(Loader, file)

\* What a pull on t that ends with kind, val, err leaves to its caller.
Return(t, kind, val, err) ==
    /\ ret' = [NoCall EXCEPT !.op = "pull", !.t = t, !.kind = kind, !.val = val,
                             !.err = err, !.existed = files[t].exists,
                             !.k = PullNumber(t), !.pastend = (rsession.done = t)]
    /\ rsession' = ReadAfterPull(t, kind)
    /\ call' = NoPull

\* load_and_decompress_data_stream(t, buffer_size) up to the while loop,
\* lines 100-103: the call raises there or enters the loop.
EnterPull(t, bsize) ==
    /\ ~call.active
    /\ \E s \in {EnterMode(files[t])} :
          /\ SetLoader(s.L)
          /\ reading' = ReadingAfterPull(t, TRUE, "error")
          /\ IF s.ok /\ files[t].exists
             THEN /\ call' = [active |-> TRUE, t |-> t, bsize |-> bsize]
                  /\ UNCHANGED <<ret, rsession>>
             ELSE Return(t, "error", <<>>, IF s.ok THEN "FileNotFoundError" ELSE s.err)
    /\ UNCHANGED <<files, writerVars, npush, nmeta, wsession, written, meta_result, accumulated,
                   decoded, reads, alone>>

\* One turn of the while loop of the call in progress, lines 104-131.
Turn ==
    /\ call.active
    /\ \E r \in {OneTurn(Loader, files[call.t].bytes, call.bsize)} :
          /\ SetLoader(r.L)
          /\ IF r.kind = "again"
             THEN UNCHANGED <<ret, rsession, reading, call>>
             ELSE /\ Return(call.t, r.kind, r.val, r.err)
                  /\ reading' = IF ~r.L.mode THEN NotReading
                                ELSE [reading EXCEPT !.n = IF r.kind = "ok" THEN @ + 1 ELSE @]
    /\ UNCHANGED <<files, writerVars, npush, nmeta, wsession, written, meta_result, accumulated,
                   decoded, reads, alone>>

\* The read loop turn by turn: a call that has entered its loop takes its
\* next turn (synchronous, single-threaded code), and no other call starts
\* before it has left the loop.
NextLoop ==
    \/ \E t \in Targets, data \in Records, overwrite \in BOOLEAN, close \in BOOLEAN :
          Push(t, data, overwrite, close)
    \/ \E t \in Targets, bsize \in BufSizes : EnterPull(t, bsize)
    \/ Turn

SpecLoop == Init /\ [][NextLoop]_vars

\* The texts a decompressed file can hand to the ledger decoding: the records
\* of a Write Session of up to MaxPush records followed by its ledger, cut
\* anywhere at the end (a read that stops short) or at the start.
SessionTexts ==
    {Concat(recs) \o JsonDumps(Len(recs), LengthsOf(recs)) :
        recs \in UNION {[1..n -> Records] : n \in 1..MaxPush}}
LedgerTexts ==
    UNION {{Take(x, n) : n \in 0..Len(x)} \cup {Drop(x, n) : n \in 0..Len(x)} :
              x \in SessionTexts}

\* DataIO._get_meta_data_from_json(text) called on its own.
DecodeLedger(text) ==
    /\ decoded' = [called |-> TRUE, text |-> text, meta |-> GetMetaDataFromJson(text)]
    /\ UNCHANGED <<files, writerVars, loaderVars, ret, npush, nmeta, wsession, written, rsession,
                   meta_result, accumulated, reading, call, reads, alone>>

NextLedger == \E text \in LedgerTexts : DecodeLedger(text)

SpecLedger == Init /\ [][NextLedger]_vars

DemoRecords ==
    << <<109, 111, 114, 101, 32, 116, 101, 115, 116, 49, 44, 32, 116, 101, 115, 116, 105,
         110, 103, 32, 117, 110, 116, 105, 108, 32, 121, 111, 117, 32, 100, 114, 111, 112, 33>>,
       <<109, 111, 114, 101, 32, 116, 101, 115, 116, 50>>,
       <<109, 111, 114, 101, 32, 116, 101, 115, 116, 51>>,
       <<109, 111, 114, 101, 32, 116, 101, 115, 116, 52>> >>

\* The next push of the demo, lines 277-280, to target A: the first with
\* overwrite=True, the last with close=True.
DemoPush ==
    /\ npush < Len(DemoRecords)
    /\ npush' = npush + 1
    /\ UNCHANGED nmeta
    /\ \/ PushAlreadyExists("A", DemoRecords[npush + 1], npush = 0, npush + 1 = Len(DemoRecords))
       \/ PushCompressError("A", DemoRecords[npush + 1], npush = 0, npush + 1 = Len(DemoRecords))
       \/ PushWrite("A", DemoRecords[npush + 1], npush = 0, npush + 1 = Len(DemoRecords))
    /\ meta_result' = NoMetaCall
    /\ reading' = ReadingAfterPush("A", ret'.err)
    /\ UNCHANGED <<loaderVars, call, decoded, reads, alone>>

\* The demo's writes, with pulls of any buffer size on any target in
\* between and after.
NextDemo ==
    \/ DemoPush
    \/ \E t \in Targets, bsize \in BufSizes : Pull(t, bsize)

SpecDemo == Init /\ [][NextDemo]_vars

\* ------------------------------------------------------------------ claims

\* The last call was pull number k >= 1 of a Read Session in which every
\* pull so far named the same cleanly finalized target and none raised.
CleanPull == /\ ret.op = "pull"
             /\ ret.k >= 1
             /\ CleanlyFinalized(ret.t)

\* C1 (as claimed): round trip.  Pull number k of a Read Session on a target
\* finalized with the records C1..Cn, k <= n, returns Ck, whatever the
\* records and the buffer sizes are.
C1_RoundTrip ==
    (CleanPull /\ ret.k <= Len(written[ret.t].recs))
        => (ret.kind = "ok" /\ ret.val = written[ret.t].recs[ret.k])

\* C2 (as claimed): end detection.  Once all records of a target have been
\* pulled, every further pull on it returns None: the first one after the
\* last record, and the ones after a pull that returned None.
C2_EveryFurtherPullEnds ==
    (/\ ret.op = "pull"
     /\ CleanlyFinalized(ret.t)
     /\ \/ ret.k = Len(written[ret.t].recs) + 1
        \/ ret.pastend)
        => ret.kind = "none"

\* C2 (amended): a pull made when the Read Session has returned every record
\* of its ledger, on a target whose file exists, returns None, raises
\* nothing, returns no record and tears the Read Session down: every Loader
\* field is back at its initial value, so the pull after it starts a new
\* Read Session.
C2_FirstFurtherPullEnds ==
    (ret.op = "pull" /\ ret.allpulled /\ ret.existed)
        => /\ ret.kind = "none"
           /\ ret.val = <<>>
           /\ ~data_stream_load_mode
           /\ load_index = 0
           /\ load_chunk_total = 0
           /\ load_chunk_string_length = <<>>
           /\ load_data_buffer = <<>>
           /\ decompressor = NewDecompressor
           /\ current_chunk_to_load = 0
           /\ current_chunk_loaded = 0
           /\ string_length_loaded = 0

\* C2 witness: both records of target B have been pulled in a clean Read
\* Session and the third pull has returned None.
C2_Witness ==
    /\ ret.op = "pull" /\ ret.allpulled /\ ret.existed
    /\ ret.t = "B" /\ ret.k = 3
    /\ ret.kind = "none"

\* The text behind the literals of a file, and the ledger in it.
PlainOf(bytes) == Decode(Inflate(NewDecompressor, bytes).out).text

\* The ledger is the last thing a closing push compresses: the text from the
\* last occurrence of the marker on.
LedgerIn(bytes) ==
    LET text == PlainOf(bytes)
        at   == {i \in 1..Len(text) : OccursAt(text, Marker, i)}
        last == IF at = {} THEN 0 ELSE (CHOOSE i \in at : \A j \in at : j <= i) - 1
        j    == JsonLoads(SliceFrom(text, last))
    IN [ok |-> j.ok /\ j.dict, amount |-> j.amount, lens |-> j.lens]

\* C3 (as claimed): AlreadyExists.  A push to a target whose file exists,
\* for which the caller has no Write Session open (one may be open for
\* another target), with overwrite=False, raises AlreadyExists.
C3_AlreadyExists ==
    (ret.op = "push" /\ ret.existed /\ ~ret.overwrite /\ ~ret.insession)
        => (ret.kind = "error" /\ ret.err = "AlreadyExists")

\* C4 (as claimed): ledger correctness.  The ledger a closing push writes
\* counts the records pushed in its Write Session and lists their lengths,
\* whatever sessions were closed or abandoned before on the instance.  The
\* closing push continues the open session, or opens one on an absent or
\* overwritten file.
C4_LedgerOfSession ==
    (/\ ret.op = "push" /\ ret.close /\ ret.kind = "ok"
     /\ (ret.insession \/ ~ret.existed \/ ret.overwrite))
        => LedgerIn(files[ret.t].bytes) =
              [ok |-> TRUE, amount |-> Len(written[ret.t].recs),
               lens |-> LengthsOf(written[ret.t].recs)]

\* C5 (as claimed): Pass 1 buffer-size invariance.  Ledger discovery with a
\* new decompressor on a cleanly finalized target returns the ledger written
\* at close, for every buffer size.
C5_Pass1AnyBufferSize ==
    (meta_result.called /\ meta_result.fresh /\ CleanlyFinalized(meta_result.t))
        => /\ meta_result.kind = "dict"
           /\ meta_result.amount = Len(written[meta_result.t].recs)
           /\ meta_result.lens = LengthsOf(written[meta_result.t].recs)

\* What pull number k returns when every pull of the Read Session reads
\* with a buffer larger than the file.
RECURSIVE WholeFilePull(_, _, _)
WholeFilePull(L, file, k) ==
    LET r == LoadAndDecompress(L, file, Len(file.bytes) + 1)
    IN IF k <= 1 THEN r ELSE WholeFilePull(r.L, file, k - 1)

\* C6 (as claimed): Pass 2 buffer-size invariance.  Pull number k of a Read
\* Session on a cleanly finalized target returns, with any buffer sizes on
\* this and the earlier pulls, the record that pull number k returns when
\* the buffer is larger than the file.
C6_Pass2AnyBufferSize ==
    (CleanPull /\ ret.k <= Len(written[ret.t].recs))
        => LET whole == WholeFilePull(ResetLoader, files[ret.t], ret.k)
           IN ret.kind = whole.kind /\ ret.val = whole.val

\* C7 (as claimed): overwrite opens a fresh session.  A push with
\* overwrite=True that opens a Write Session succeeds and leaves in the file
\* only what a new compression context writes for the pushed record, also
\* after the instance has closed or abandoned a session.
C7_OverwriteOpensFresh ==
    (ret.op = "push" /\ ret.overwrite /\ ~ret.insession)
        => /\ ret.kind = "ok"
           /\ files[ret.t].exists
           /\ files[ret.t].bytes = IF ret.close THEN FinalizedFile(written[ret.t].recs)
                                   ELSE CompressOut(NewCompressor, Encode(wsession.recs[1]))

\* C8 (as claimed): finalized layout.  At the closing push of a Write
\* Session (the first use of the instance's writer, started on an absent or
\* overwritten file) the file is the zlib header, the compressed records of
\* the session in call order, the compressed ledger and the flush bytes,
\* whatever overwrite flags the pushes of the session carried.
C8_FinalizedLayout ==
    (ret.op = "push" /\ ret.close /\ ret.kind = "ok" /\ written[ret.t].first)
        => files[ret.t].bytes = FinalizedFile(written[ret.t].recs)

\* C9 (as claimed): a pull never returns a record shorter than the length
\* the ledger gives for it.
C9_NoShortRecord ==
    (ret.op = "pull" /\ ret.kind = "ok")
        => Len(ret.val) = load_chunk_string_length[current_chunk_loaded]

\* C10 (as claimed): after a pull has failed with MetadataNotFound no Read
\* Session is left active and the decompression context is a new one.
C10_MetadataNotFoundRecoverable ==
    (ret.op = "pull" /\ ret.err = "MetadataNotFound")
        => (~data_stream_load_mode /\ decompressor = NewDecompressor)

\* C11 (as claimed): the demo's four pushes produce the ledger with
\* record_count 4 and record_lengths [36, 10, 10, 10].
C11_DemoLedger36 ==
    (ret.op = "push" /\ ret.close /\ ret.kind = "ok" /\ npush = Len(DemoRecords))
        => LedgerIn(files["A"].bytes) = [ok |-> TRUE, amount |-> 4, lens |-> <<36, 10, 10, 10>>]

\* C11 (amended): the demo's four pushes produce the ledger with
\* record_count 4 and record_lengths [35, 10, 10, 10]; the first record has
\* 35 characters.
C11_DemoLedger35 ==
    (ret.op = "push" /\ ret.close /\ ret.kind = "ok" /\ npush = Len(DemoRecords))
        => LedgerIn(files["A"].bytes) = [ok |-> TRUE, amount |-> 4, lens |-> <<35, 10, 10, 10>>]

\* C11 witness: the fourth push of the demo has closed target A.
C11_Witness ==
    /\ ret.op = "push" /\ ret.close /\ ret.kind = "ok" /\ ret.t = "A"
    /\ npush = Len(DemoRecords)
    /\ written["A"].fin /\ written["A"].recs = DemoRecords

\* C12: in every reachable state the number of accumulated record lengths
\* equals the accumulated record count, and entry i is the length of the
\* i-th record counted since the accumulator was last reset.
C12_LedgerInvariant ==
    /\ Len(data_stream_string_len) = data_stream_chunk_amount
    /\ data_stream_string_len = LengthsOf(accumulated)

\* C12 witness: two pushes, of "" and of a record of one character, have
\* been counted since the last reset.
C12_Witness ==
    /\ ret.op = "push" /\ ret.kind = "ok"
    /\ data_stream_chunk_amount = 2
    /\ data_stream_string_len = <<0, 1>>
    /\ accumulated = << <<>>, <<233>> >>

\* The ledger text that the Write Session of a cleanly finalized target t
\* compressed behind its last record.
LedgerTextOf(t) == JsonDumps(Len(written[t].recs), LengthsOf(written[t].recs))

\* Every character of text occurs in some record written to t.
MadeOfRecordText(t, text) ==
    \A i \in 1..Len(text) :
        \E j \in 1..Len(Concat(written[t].recs)) : Concat(written[t].recs)[j] = text[i]

IsPrefix(s, t) == Len(s) <= Len(t) /\ SubSeq(t, 1, Len(s)) = s

\* C13: in a Read Session on a finalized target, with any buffer size, a
\* record returned by a pull contains no part of the ledger text (it is made
\* of characters of the written records only), and once the next-record index
\* has reached the record count what is left in the pending buffer is ledger
\* text (read as: the part of the ledger text decompressed so far).
C13_LedgerNeverDelivered ==
    (reading.pure /\ ret.op = "pull" /\ ret.t = reading.t)
        => /\ ret.kind = "ok" => MadeOfRecordText(ret.t, ret.val)
           /\ current_chunk_loaded = load_chunk_total
                  => IsPrefix(load_data_buffer, LedgerTextOf(ret.t))

\* C14: a call of load_and_decompress_data_stream leaves its read loop after
\* finitely many reads, with any file, any loaded ledger and any buffer
\* size: a turn that does not return a record or end-of-stream and does not
\* raise has moved the offset forward, and the offset of a call that stays in
\* the loop is never past the end of the file, so a call reads at most once
\* more than the file has bytes.
C14_PullLeavesLoop ==
    [][(call.active /\ call'.active)
          => /\ load_index' > load_index
             /\ load_index' <= Len(files[call.t].bytes)]_vars

\* A pull with a buffer of one or two bytes has returned the first record of
\* B after reading up to offset 4, several reads later.
C14_Witness ==
    /\ ~call.active
    /\ ret.op = "pull" /\ ret.t = "B" /\ ret.kind = "ok" /\ ret.val = <<97>>
    /\ load_index = 4

\* C15: the loaded ledger is immutable during a Read Session: a pull or a
\* push that finds the load mode set and leaves it set (every operation from
\* the pull that ran Pass 1 up to, not including, the pull that returns
\* end-of-stream) changes neither the loaded record count nor the loaded
\* record lengths.
C15_LoadedLedgerImmutable ==
    [][(data_stream_load_mode /\ data_stream_load_mode')
          => /\ load_chunk_total' = load_chunk_total
             /\ load_chunk_string_length' = load_chunk_string_length]_vars

\* A push has followed the delivery of the first of two records; the ledger
\* of the Read Session is still loaded.
C15_Witness ==
    /\ ret.op = "push" /\ ret.kind = "ok"
    /\ data_stream_load_mode
    /\ load_chunk_total = 2 /\ load_chunk_string_length = <<1, 1>>
    /\ current_chunk_loaded = 1

\* C16: when the ledger marker is found in the text but the text from the
\* marker to its end does not parse into an object with both fields, ledger
\* decoding fails (json.loads raising stands for MalformedLedger): it returns
\* no ledger and does not answer that there is no ledger (None).
C16_MalformedLedger ==
    (/\ decoded.called
     /\ Contains(decoded.text, Marker)
     /\ ~JsonLoads(SliceFrom(decoded.text, Find(decoded.text, Marker))).dict)
        => decoded.meta.kind = "error"

\* C17: in every state of an active Read Session on a finalized target,
\* between its pulls, the running total of decompressed text equals the length
\* of the pending buffer plus the ledger lengths of the records delivered so
\* far, and the next-record index is the number of records delivered.
C17_BufferAccounting ==
    (reading.pure /\ data_stream_load_mode)
        => /\ string_length_loaded
                  = Len(load_data_buffer)
                        + SumSeq(Take(load_chunk_string_length, current_chunk_loaded))
           /\ current_chunk_loaded = reading.n
           /\ current_chunk_to_load = reading.n

\* The pulls of the current reading repeat those of the last finished one
\* wherever they were made with the same buffer sizes.
SameAsLastReading ==
    \A i \in 1..Min(Len(reads.cur), Len(reads.prev)) :
        (\A j \in 1..i : reads.cur[j].bsize = reads.prev[j].bsize)
            => reads.cur[i] = reads.prev[i]

\* C18: the pull that returns end-of-stream leaves every Loader field (load
\* flag, offset, loaded ledger, pending buffer, running total, record indices,
\* decompressor) at its initial value, and a second reading of the same
\* finalized target to end-of-stream on the same instance, pull for pull with
\* the buffer sizes of the first, delivers what the first delivered.
C18_RereadAfterTeardown ==
    /\ (ret.op = "pull" /\ ret.kind = "none") => SetLoaderInit
    /\ reads.done => SameAsLastReading

\* After a reading of B that delivered both records and ended, a second
\* reading with the same buffer sizes has delivered the second record again.
C18_Witness ==
    /\ reads.done
    /\ Len(reads.prev) = 3 /\ reads.prev[1].val = <<97>> /\ reads.prev[2].val = <<233>>
    /\ reads.prev[2].bsize = 2
    /\ Len(reads.cur) = 2
    /\ reads.cur[1].bsize = reads.prev[1].bsize
    /\ reads.cur[2].bsize = 2 /\ reads.cur[2].val = <<233>>

\* The file a new instance leaves when it makes the pushes of the Write
\* Session on A alone: nothing before the first push, the stream header while
\* the session is open, the finalized stream after the closing push.
FileAloneA ==
    IF written["A"].fin
    THEN [exists |-> TRUE, bytes |-> FinalizedFile(written["A"].recs)]
    ELSE IF wsession.open /\ wsession.t = "A"
    THEN [exists |-> TRUE, bytes |-> CompressOut(NewCompressor, Encode(Concat(wsession.recs)))]
    ELSE NoFile

\* The loader is that of the instance that made the pulls alone and the
\* last pull gave both the same; the file A is that of the pushes alone.
SameAsAlone ==
    /\ files["A"] = FileAloneA
    /\ Loader = alone.L
    /\ ret.op = "pull" => (ret.kind = alone.kind /\ ret.val = alone.val /\ ret.err = alone.err)

\* C19: a push changes no Loader field, a pull changes neither the append
\* flag nor the ledger accumulator nor the compressor nor a file, and after
\* every step of any interleaving of the pushes of a Write Session on A with
\* the pulls of a Read Session on the finalized target B, the file A and the
\* records delivered from B are those of the two sessions made on their own.
C19_NoInterference ==
    /\ []SameAsAlone
    /\ [][/\ ret'.op = "push" => UNCHANGED loaderVars
          /\ ret'.op = "pull" => UNCHANGED <<writerVars, files>>]_vars

\* The closing push of a two-record Write Session on A was made after the
\* first pull of a Read Session on B and before its second.
C19_Witness ==
    /\ ret.op = "push" /\ ret.t = "A" /\ ret.close /\ ret.kind = "ok"
    /\ written["A"].fin /\ Len(written["A"].recs) = 2
    /\ data_stream_load_mode
    /\ current_chunk_loaded = 1 /\ alone.val = <<97>>
====
